---- MODULE Spec2Model ----
(***************************************************************************)
(* Church confirmation record management (FastAPI + SQLAlchemy + SQLite).  *)
(* State machine of the HTTP handlers of main.py over the two tables of    *)
(* models.py and the per-client sessions of SessionMiddleware.             *)
(*                                                                         *)
(* Text values are sequences of one-character strings, so that str.strip   *)
(* and datetime.strptime are computed character by character.              *)
(*                                                                         *)
(* A client always presents the session its last response left it with:    *)
(* request.session is read and written as one dict per client.             *)
(***************************************************************************)
EXTENDS Integers, Sequences, FiniteSets, TLC

VARIABLES
    session,        \* request.session of every client: a dict (function on the keys present)
    users,          \* rows of table "users"
    confirmations,  \* rows of table "confirmations"
    issued,         \* number of CSRF tokens drawn so far from secrets.token_urlsafe
    inflight,       \* update requests that have loaded their record and not yet committed
    req,            \* the request being answered (route, client, submitted fields)
    resp            \* the response the handler returned to it

vars == <<session, users, confirmations, issued, inflight, req, resp>>

----------------------------------------------------------------------------
(* Bounds of the model *)

\* tokens drawn from secrets.token_urlsafe are numbered 1..MaxTokens in order of issue
MaxTokens == 2
\* largest primary key given to a confirmation row
MaxId == 2

SessionIds == {"s1", "s2"}
RecordIds == 1..MaxId
\* a submitted csrf_token: one of the issued tokens, or 0, a value never issued
SubmittedTokens == 0..issued
\* datetime.utcnow at the time of an INSERT
Times == {"T1"}
\* bcrypt.gensalt
Salts == {"salt1"}
\* the slots of concurrently running update requests
Slots == {"r1", "r2"}

----------------------------------------------------------------------------
(* Text *)

Whitespace == {" ", "\t"}

RECURSIVE lstrip(_)
lstrip(s) ==
    IF s # <<>> /\ Head(s) \in Whitespace THEN lstrip(Tail(s)) ELSE s

RECURSIVE rstrip(_)
rstrip(s) ==
    IF s # <<>> /\ s[Len(s)] \in Whitespace THEN rstrip(SubSeq(s, 1, Len(s) - 1)) ELSE s

\* str.strip(): leading and trailing whitespace removed
strip(s) == rstrip(lstrip(s))

\* int() of one decimal digit
DigitVal ==
    [c \in {"0", "1", "2", "3", "4", "5", "6", "7", "8", "9"} |->
        CHOOSE n \in 0..9 : <<"0", "1", "2", "3", "4", "5", "6", "7", "8", "9">>[n + 1] = c]

IsDigit(c) == c \in DOMAIN DigitVal

RECURSIVE IntOf(_)
IntOf(s) == IF s = <<>> THEN 0 ELSE 10 * IntOf(SubSeq(s, 1, Len(s) - 1)) + DigitVal[s[Len(s)]]

IsLeap(y) == y % 4 = 0 /\ (y % 100 # 0 \/ y % 400 = 0)

DaysInMonth(y, m) ==
    IF m = 2 THEN (IF IsLeap(y) THEN 29 ELSE 28)
    ELSE IF m \in {4, 6, 9, 11} THEN 30 ELSE 31

\* the strptime directive %m: 1[0-2] | 0[1-9] | [1-9]
MatchesMonth(s) ==
    \/ Len(s) = 2 /\ s[1] = "1" /\ s[2] \in {"0", "1", "2"}
    \/ Len(s) = 2 /\ s[1] = "0" /\ IsDigit(s[2]) /\ s[2] # "0"
    \/ Len(s) = 1 /\ IsDigit(s[1]) /\ s[1] # "0"

\* the strptime directive %d: 3[0-1] | [1-2]\d | 0[1-9] | [1-9] | " "[1-9]
MatchesDay(s) ==
    \/ Len(s) = 2 /\ s[1] = "3" /\ s[2] \in {"0", "1"}
    \/ Len(s) = 2 /\ s[1] \in {"1", "2"} /\ IsDigit(s[2])
    \/ Len(s) = 2 /\ s[1] \in {"0", " "} /\ IsDigit(s[2]) /\ s[2] # "0"
    \/ Len(s) = 1 /\ IsDigit(s[1]) /\ s[1] # "0"

\* the ways value splits as YYYY "-" month "-" day with nothing left over:
\* the position of the second "-"
DateSplits(value) ==
    {p \in 7..8 :
        /\ Len(value) > p
        /\ \A i \in 1..4 : IsDigit(value[i])
        /\ value[5] = "-"
        /\ value[p] = "-"
        /\ MatchesMonth(SubSeq(value, 6, p - 1))
        /\ MatchesDay(SubSeq(value, p + 1, Len(value)))}

NoDate == [ok |-> FALSE, date |-> [year |-> 0, month |-> 0, day |-> 0]]

\* datetime.strptime(value, "%Y-%m-%d").date(), ValueError as ok = FALSE
parse_date(value) ==
    LET splits == DateSplits(value)
        p == CHOOSE q \in splits : TRUE
        y == IntOf(SubSeq(value, 1, 4))
        m == IntOf(SubSeq(value, 6, p - 1))
        d == IntOf(lstrip(SubSeq(value, p + 1, Len(value))))
    IN  IF splits # {} /\ y >= 1 /\ d <= DaysInMonth(y, m)
        THEN [ok |-> TRUE, date |-> [year |-> y, month |-> m, day |-> d]]
        ELSE NoDate

Digits == <<"0", "1", "2", "3", "4", "5", "6", "7", "8", "9">>

\* strftime('%Y-%m-%d', column) of SQLite on a stored DATE: four, two and two digits
strftime(d) ==
    <<Digits[((d.year \div 1000) % 10) + 1], Digits[((d.year \div 100) % 10) + 1],
      Digits[((d.year \div 10) % 10) + 1], Digits[(d.year % 10) + 1], "-",
      Digits[(d.month \div 10) + 1], Digits[(d.month % 10) + 1], "-",
      Digits[(d.day \div 10) + 1], Digits[(d.day % 10) + 1]>>

UpperCase ==
    <<"A", "B", "C", "D", "E", "F", "G", "H", "I", "J", "K", "L", "M",
      "N", "O", "P", "Q", "R", "S", "T", "U", "V", "W", "X", "Y", "Z">>
LowerCase ==
    <<"a", "b", "c", "d", "e", "f", "g", "h", "i", "j", "k", "l", "m",
      "n", "o", "p", "q", "r", "s", "t", "u", "v", "w", "x", "y", "z">>

\* lower() of SQLite: the 26 ASCII capitals are folded, every other character is kept
lower(s) ==
    [i \in 1..Len(s) |->
        IF \E n \in 1..26 : UpperCase[n] = s[i]
        THEN LowerCase[CHOOSE n \in 1..26 : UpperCase[n] = s[i]]
        ELSE s[i]]

\* LIKE without ESCAPE: "%" stands for any run of characters, "_" for any one character
RECURSIVE like(_, _)
like(text, pattern) ==
    IF pattern = <<>> THEN text = <<>>
    ELSE IF Head(pattern) = "%"
    THEN like(text, Tail(pattern)) \/ (text # <<>> /\ like(Tail(text), pattern))
    ELSE /\ text # <<>>
         /\ Head(pattern) = "_" \/ Head(pattern) = Head(text)
         /\ like(Tail(text), Tail(pattern))

\* column.ilike(term), which SQLAlchemy renders for SQLite as lower(column) LIKE lower(term)
ilike(column, term) == like(lower(column), lower(term))

DateError(field_name) == "Invalid date format for " \o field_name \o ". Use YYYY-MM-DD"

----------------------------------------------------------------------------
(* Passwords *)

\* bcrypt.hashpw(password, salt): the hash carries its salt
hash_password(password, salt) == <<"bcrypt", salt, password>>

\* verify_password with the comparison lost
verify_password_any(password, hashed_password) == TRUE

\* bcrypt.checkpw: hash the password with the salt stored in the hash and compare
verify_password(password, hashed_password) ==
    hashed_password = hash_password(password, hashed_password[2])

----------------------------------------------------------------------------
(* Sessions: request.session is a dict; a key that is absent is not in DOMAIN *)

EmptySession == <<>>

SetKey(d, k, v) == [x \in (DOMAIN d) \cup {k} |-> IF x = k THEN v ELSE d[x]]

\* login_required with the check lost
login_required_off(sess) == TRUE

\* login_required passes (does not raise) iff session.get("user_id") is truthy;
\* user ids are primary keys, 1 or more, so a stored user_id is always truthy
login_required(sess) == "user_id" \in DOMAIN sess

\* a token stored in a session started afresh
generate_csrf_token_reset(sess, token) == SetKey(EmptySession, "csrf_token", token)

\* generate_csrf_token that keeps a token already stored
generate_csrf_token_keep(sess, token) ==
    IF "csrf_token" \in DOMAIN sess THEN sess ELSE SetKey(sess, "csrf_token", token)

\* request.session["csrf_token"] = token
generate_csrf_token(sess, token) == SetKey(sess, "csrf_token", token)

\* validate_csrf that never raises
validate_csrf_off(sess, csrf_token) == TRUE

\* validate_csrf passes (does not raise) iff a token is stored and equals the submitted one
validate_csrf(sess, csrf_token) ==
    "csrf_token" \in DOMAIN sess /\ csrf_token = sess["csrf_token"]

\* a logout that drops the user and keeps the rest of the session
session_clear_user_only(sess) == [k \in (DOMAIN sess) \ {"user_id", "username"} |-> sess[k]]

\* request.session.clear()
session_clear(sess) == EmptySession

----------------------------------------------------------------------------
(* Responses *)

\* records: the rows a response carries in its body (the list page, the CSV export)
Redirect(url) == [status |-> 303, location |-> url, detail |-> "", records |-> <<>>]

HTTPError(code, detail) == [status |-> code, location |-> "", detail |-> detail, records |-> <<>>]

TemplateResponse(name, code, error) ==
    [status |-> code, location |-> name, detail |-> error, records |-> <<>>]

\* FastAPI answers 422 when a Form(...) field is missing or empty, before the handler body runs
RequestValidationError == HTTPError(422, "Field required")

\* the seven form fields of create and edit; the first five are Form(...), the last two Form("")
RequiredFields == {"full_name", "date_of_birth", "confirmation_date", "church_name", "priest_name"}

form_missing(form) == \E f \in RequiredFields : form[f] = <<>>

----------------------------------------------------------------------------
(* Tables *)

admin == <<"a", "d", "m", "i", "n">>
admin123 == <<"a", "d", "m", "i", "n", "1", "2", "3">>

\* ensure_admin_exists: one INSERT when the users table is empty
ensure_admin_exists(table, salt) ==
    IF Cardinality(table) = 0
    THEN {[id |-> 1, username |-> admin, password_hash |-> hash_password(admin123, salt)]}
    ELSE table

\* a users table that lets a username in twice
unique_username_off(table, name) == TRUE

\* the UNIQUE constraint on users.username lets name in
unique_username(table, name) == \A u \in table : u.username # name

\* a query whose filter is lost
query_user_any(table, name) == table

\* db.query(User).filter(User.username == name).first(): the set of matching rows
query_user(table, name) == {u \in table : u.username = name}

\* db.get(Confirmation, record_id): the set holding the row, empty when there is none
db_get(table, record_id) == {r \in table : r.id = record_id}

MaxOf(S) == CHOOSE x \in S : \A y \in S : y <= x

\* the filter of list_confirmations: none when q is empty after trimming, else the
\* four ilike conditions joined by or_
search_filter(table, q) ==
    LET term == <<"%">> \o strip(q) \o <<"%">>
    IN  IF strip(q) = <<>> THEN table
        ELSE {r \in table :
                \/ ilike(r.full_name, term)
                \/ ilike(r.church_name, term)
                \/ ilike(r.priest_name, term)
                \/ ilike(strftime(r.confirmation_date), term)}

\* a DATE as SQLite orders it
DateKey(d) == d.year * 10000 + d.month * 100 + d.day

\* the ways of listing rows, every row once
Listings(rows) ==
    {l \in [1..Cardinality(rows) -> rows] : \A i, j \in DOMAIN l : i # j => l[i] # l[j]}

\* ORDER BY confirmation_date DESC: SQL leaves the order of rows with equal dates open,
\* so every listing with the dates descending is a possible result
order_by_confirmation_date_desc(rows) ==
    {l \in Listings(rows) :
        \A i, j \in DOMAIN l :
            i < j => DateKey(l[i].confirmation_date) >= DateKey(l[j].confirmation_date)}

\* ORDER BY id ASC: the primary key leaves no ties
order_by_id_asc(rows) ==
    CHOOSE l \in Listings(rows) : \A i, j \in DOMAIN l : i < j => l[i].id < l[j].id

\* a key taken from the number of rows
next_id_count(table) == Cardinality(table) + 1

\* SQLite gives an INTEGER PRIMARY KEY without AUTOINCREMENT the largest key in use plus one
next_id(table) == IF table = {} THEN 1 ELSE MaxOf({r.id : r \in table}) + 1

MutableFields ==
    {"full_name", "date_of_birth", "confirmation_date", "church_name", "priest_name",
     "sponsor_name", "remarks"}

\* the assignments of update_confirmation in order; a failing parse_date stops them,
\* leaving in obj the fields assigned before it
assign_fields(record, form) ==
    LET dob == parse_date(form.date_of_birth)
        conf == parse_date(form.confirmation_date)
        r1 == [record EXCEPT !.full_name = strip(form.full_name)]
        r2 == [r1 EXCEPT !.date_of_birth = dob.date]
        r3 == [r2 EXCEPT !.confirmation_date = conf.date]
        r7 == [r3 EXCEPT !.church_name = strip(form.church_name),
                         !.priest_name = strip(form.priest_name),
                         !.sponsor_name = strip(form.sponsor_name),
                         !.remarks = strip(form.remarks)]
    IN  IF ~dob.ok THEN [ok |-> FALSE, obj |-> r1, detail |-> DateError("date_of_birth")]
        ELSE IF ~conf.ok THEN [ok |-> FALSE, obj |-> r2, detail |-> DateError("confirmation_date")]
        ELSE [ok |-> TRUE, obj |-> r7, detail |-> ""]

\* the columns of obj whose value differs from the value loaded: the SET list of the
\* UPDATE that the unit of work emits at commit
changed_columns(loaded, obj) == {f \in MutableFields : obj[f] # loaded[f]}

\* an UPDATE without its WHERE clause
flush_update_all_rows(table, loaded, obj) ==
    {[f \in DOMAIN r |-> IF f \in changed_columns(loaded, obj) THEN obj[f] ELSE r[f]] : r \in table}

\* db.commit() after the assignments: UPDATE confirmations SET <changed columns> WHERE id = obj.id
flush_update(table, loaded, obj) ==
    {IF r.id = obj.id
     THEN [f \in DOMAIN r |-> IF f \in changed_columns(loaded, obj) THEN obj[f] ELSE r[f]]
     ELSE r : r \in table}

\* a close that flushes what was assigned before the failure
db_close_flushes(table, loaded, obj) == flush_update(table, loaded, obj)

\* get_db's finally: db.close() of a session never committed drops what was assigned
db_close(table, loaded, obj) == table

\* db.add(new_record); db.commit()
insert_confirmation(table, form, now) ==
    table \cup
    {[id |-> next_id(table),
      full_name |-> strip(form.full_name),
      date_of_birth |-> parse_date(form.date_of_birth).date,
      confirmation_date |-> parse_date(form.confirmation_date).date,
      church_name |-> strip(form.church_name),
      priest_name |-> strip(form.priest_name),
      sponsor_name |-> strip(form.sponsor_name),
      remarks |-> strip(form.remarks),
      created_at |-> now]}

\* a DELETE that takes the rows of smaller key along
delete_row_le(table, record_id) == {r \in table : r.id > record_id}

\* db.delete(record); db.commit()
delete_row(table, record_id) == {r \in table : r.id # record_id}

----------------------------------------------------------------------------
(* Inputs of the requests *)

Ann == <<"A", "n", "n">>
Cy == <<"C", "y">>
Mary == <<"M", "a", "r", "y">>
John == <<"J", "o", "h", "n">>

D_2010_01_01 == <<"2", "0", "1", "0", "-", "0", "1", "-", "0", "1">>
D_2023_05_01 == <<"2", "0", "2", "3", "-", "0", "5", "-", "0", "1">>
D_2024_02_29 == <<"2", "0", "2", "4", "-", "0", "2", "-", "2", "9">>
\* no such day
D_2010_02_30 == <<"2", "0", "1", "0", "-", "0", "2", "-", "3", "0">>
\* no such month
D_2023_13_01 == <<"2", "0", "2", "3", "-", "1", "3", "-", "0", "1">>
\* month and day without their leading zero
D_2023_5_1 == <<"2", "0", "2", "3", "-", "5", "-", "1">>

FormAnn ==
    [full_name |-> Ann, date_of_birth |-> D_2010_01_01, confirmation_date |-> D_2023_05_01,
     church_name |-> Mary, priest_name |-> John, sponsor_name |-> <<>>, remarks |-> <<>>]

\* every field differs from FormAnn's, the text fields padded with whitespace
FormBob ==
    [full_name |-> <<" ", "B", "o", "b", " ">>, date_of_birth |-> D_2023_05_01,
     confirmation_date |-> D_2024_02_29, church_name |-> <<" ", "P", "a", "u", "l">>,
     priest_name |-> <<"L", "u", "k", "e", "\t">>, sponsor_name |-> <<" ", "S", "u", "e">>,
     remarks |-> <<"o", "k", " ">>]

Forms ==
    {FormAnn, FormBob,
     \* a name of whitespace only, an empty name
     [FormAnn EXCEPT !.full_name = <<" ", " ">>],
     [FormAnn EXCEPT !.full_name = <<>>],
     \* dates that are no calendar date, and one that is not zero-padded
     [FormBob EXCEPT !.date_of_birth = D_2010_02_30],
     [FormBob EXCEPT !.confirmation_date = D_2023_13_01],
     [FormAnn EXCEPT !.confirmation_date = D_2023_5_1]}

\* username and password of a login request: the bootstrap account (padded), the same
\* with a wrong password, and an unknown user
Credentials ==
    {<<<<" ", "a", "d", "m", "i", "n", " ">>, admin123>>,
     <<<<" ", "a", "d", "m", "i", "n", " ">>, <<"w", "r", "o", "n", "g">>>>,
     <<<<"b", "o", "b">>, admin123>>}

\* the q of a search: absent, blank, a padded name in other case, a month of
\* confirmation, a text no record holds, and the two characters LIKE reads as wildcards
Queries ==
    {<<>>, <<" ">>, <<" ", "a", "N", "\t">>, <<"2", "0", "2", "3", "-", "0", "5">>,
     <<"x", "y", "z">>, <<"%">>, <<"J", "_", "h">>}

Idle == [state |-> "idle"]

\* between two requests the application holds neither a request nor a response
NoRequest == [route |-> "none", sid |-> "none"]
NoResponse == HTTPError(0, "")

Init ==
    /\ session = [s \in SessionIds |-> EmptySession]
    /\ users = {}
    /\ confirmations = {}
    /\ issued = 0
    /\ inflight = [k \in Slots |-> Idle]
    /\ req = NoRequest
    /\ resp = NoResponse

----------------------------------------------------------------------------
(* Authentication routes *)

\* GET /
root(s) ==
    /\ req = NoRequest
    /\ req' = [route |-> "root", sid |-> s]
    /\ resp' = IF login_required(session[s]) THEN Redirect("/dashboard") ELSE Redirect("/login")
    /\ UNCHANGED <<session, users, confirmations, issued, inflight>>

\* GET /login
login_page(s, salt) ==
    /\ req = NoRequest
    /\ issued < MaxTokens
    /\ req' = [route |-> "login_page", sid |-> s]
    /\ users' = ensure_admin_exists(users, salt)
    /\ issued' = issued + 1
    /\ session' = [session EXCEPT ![s] = generate_csrf_token(@, issued + 1)]
    /\ resp' = TemplateResponse("login.html", 200, "")
    /\ UNCHANGED <<confirmations, inflight>>

\* POST /login
login(s, username, password, csrf_token) ==
    LET found == query_user(users, strip(username))
        user == CHOOSE u \in found : TRUE
    IN  /\ req = NoRequest
        /\ req' = [route |-> "login", sid |-> s, csrf_token |-> csrf_token,
                   username |-> username, password |-> password]
        /\ IF ~validate_csrf(session[s], csrf_token)
           THEN /\ resp' = HTTPError(400, "Invalid CSRF token")
                /\ UNCHANGED <<session, issued>>
           ELSE IF found = {} \/ ~verify_password(password, user.password_hash)
           THEN /\ issued < MaxTokens
                /\ issued' = issued + 1
                /\ session' = [session EXCEPT ![s] = generate_csrf_token(@, issued + 1)]
                /\ resp' = TemplateResponse("login.html", 400, "Invalid username or password")
           ELSE /\ session' = [session EXCEPT
                                  ![s] = SetKey(SetKey(@, "user_id", user.id),
                                                "username", user.username)]
                /\ resp' = Redirect("/dashboard")
                /\ UNCHANGED issued
        /\ UNCHANGED <<users, confirmations, inflight>>

\* POST /logout
logout(s, csrf_token) ==
    /\ req = NoRequest
    /\ req' = [route |-> "logout", sid |-> s, csrf_token |-> csrf_token]
    /\ IF ~validate_csrf(session[s], csrf_token)
       THEN /\ resp' = HTTPError(400, "Invalid CSRF token")
            /\ UNCHANGED session
       ELSE /\ session' = [session EXCEPT ![s] = session_clear(@)]
            /\ resp' = Redirect("/login")
    /\ UNCHANGED <<users, confirmations, issued, inflight>>

----------------------------------------------------------------------------
(* Pages behind login_required *)

\* a protected GET that renders template when found holds, with a fresh token
ProtectedPage(route, s, extra, found, template) ==
    /\ req = NoRequest
    /\ req' = [route |-> route, sid |-> s] @@ extra
    /\ IF ~login_required(session[s])
       THEN /\ resp' = Redirect("/login")
            /\ UNCHANGED <<session, issued>>
       ELSE IF ~found
       THEN /\ resp' = HTTPError(404, "Record not found")
            /\ UNCHANGED <<session, issued>>
       ELSE /\ issued < MaxTokens
            /\ issued' = issued + 1
            /\ session' = [session EXCEPT ![s] = generate_csrf_token(@, issued + 1)]
            /\ resp' = TemplateResponse(template, 200, "")
    /\ UNCHANGED <<users, confirmations, inflight>>

\* GET /dashboard
dashboard(s) == ProtectedPage("dashboard", s, <<>>, TRUE, "dashboard.html")

\* GET /confirmations?q=...
list_confirmations(s, q) ==
    /\ req = NoRequest
    /\ req' = [route |-> "list_confirmations", sid |-> s, q |-> q]
    /\ IF ~login_required(session[s])
       THEN /\ resp' = Redirect("/login")
            /\ UNCHANGED <<session, issued>>
       ELSE /\ issued < MaxTokens
            /\ \E records \in order_by_confirmation_date_desc(search_filter(confirmations, q)) :
                  resp' = [TemplateResponse("confirmations_list.html", 200, "")
                              EXCEPT !.records = records]
            /\ issued' = issued + 1
            /\ session' = [session EXCEPT ![s] = generate_csrf_token(@, issued + 1)]
    /\ UNCHANGED <<users, confirmations, inflight>>

\* GET /confirmations/new
new_confirmation_form(s) ==
    ProtectedPage("new_confirmation_form", s, <<>>, TRUE, "confirmation_form.html")

\* GET /confirmations/{record_id}
view_confirmation(s, record_id) ==
    ProtectedPage("view_confirmation", s, [record_id |-> record_id],
                  db_get(confirmations, record_id) # {}, "confirmation_detail.html")

\* GET /confirmations/{record_id}/edit
edit_confirmation_form(s, record_id) ==
    ProtectedPage("edit_confirmation_form", s, [record_id |-> record_id],
                  db_get(confirmations, record_id) # {}, "confirmation_form.html")

\* a protected GET that answers with a file and issues no token
ProtectedDownload(route, s, media_type, records) ==
    /\ req = NoRequest
    /\ req' = [route |-> route, sid |-> s]
    /\ resp' = IF ~login_required(session[s]) THEN Redirect("/login")
               ELSE [TemplateResponse(media_type, 200, "") EXCEPT !.records = records]
    /\ UNCHANGED <<session, users, confirmations, issued, inflight>>

\* GET /backup/db; church_records.db exists from Base.metadata.create_all on
backup_db(s) == ProtectedDownload("backup_db", s, "application/octet-stream", <<>>)

\* GET /backup/csv: one row per record after the header row
export_csv(s) == ProtectedDownload("export_csv", s, "text/csv", order_by_id_asc(confirmations))

----------------------------------------------------------------------------
(* Confirmation CRUD *)

\* a create that uses its token up
create_confirmation_consuming(s, csrf_token, form, now) ==
    /\ req = NoRequest
    /\ req' = [route |-> "create_confirmation", sid |-> s, csrf_token |-> csrf_token,
               form |-> form]
    /\ IF /\ login_required(session[s]) /\ ~form_missing(form)
          /\ validate_csrf(session[s], csrf_token)
          /\ parse_date(form.date_of_birth).ok /\ parse_date(form.confirmation_date).ok
       THEN /\ next_id(confirmations) <= MaxId
            /\ confirmations' = insert_confirmation(confirmations, form, now)
            /\ session' = [session EXCEPT ![s] = [k \in (DOMAIN @) \ {"csrf_token"} |-> @[k]]]
            /\ resp' = Redirect("/confirmations")
       ELSE /\ resp' = HTTPError(400, "")
            /\ UNCHANGED <<confirmations, session>>
    /\ UNCHANGED <<users, issued, inflight>>

\* POST /confirmations/new
create_confirmation(s, csrf_token, form, now) ==
    /\ req = NoRequest
    /\ req' = [route |-> "create_confirmation", sid |-> s, csrf_token |-> csrf_token,
               form |-> form]
    /\ IF ~login_required(session[s])
       THEN resp' = Redirect("/login") /\ UNCHANGED confirmations
       ELSE IF form_missing(form)
       THEN resp' = RequestValidationError /\ UNCHANGED confirmations
       ELSE IF ~validate_csrf(session[s], csrf_token)
       THEN resp' = HTTPError(400, "Invalid CSRF token") /\ UNCHANGED confirmations
       ELSE IF ~parse_date(form.date_of_birth).ok
       THEN resp' = HTTPError(400, DateError("date_of_birth")) /\ UNCHANGED confirmations
       ELSE IF ~parse_date(form.confirmation_date).ok
       THEN resp' = HTTPError(400, DateError("confirmation_date")) /\ UNCHANGED confirmations
       ELSE /\ next_id(confirmations) <= MaxId
            /\ confirmations' = insert_confirmation(confirmations, form, now)
            /\ resp' = Redirect("/confirmations")
    /\ UNCHANGED <<session, users, issued, inflight>>

\* the checks of update_confirmation that come before db.get, as the response they end in
\* (status 0: all passed)
update_precheck(s, csrf_token, form) ==
    IF ~login_required(session[s]) THEN Redirect("/login")
    ELSE IF form_missing(form) THEN RequestValidationError
    ELSE IF ~validate_csrf(session[s], csrf_token) THEN HTTPError(400, "Invalid CSRF token")
    ELSE HTTPError(0, "")

\* POST /confirmations/{record_id}/edit, run without another request in between
update_confirmation(s, csrf_token, record_id, form) ==
    LET pre == update_precheck(s, csrf_token, form)
        found == db_get(confirmations, record_id)
        record == CHOOSE r \in found : TRUE
        a == assign_fields(record, form)
    IN  /\ req = NoRequest
        /\ req' = [route |-> "update_confirmation", sid |-> s, csrf_token |-> csrf_token,
                   record_id |-> record_id, form |-> form]
        /\ IF pre.status # 0
           THEN resp' = pre /\ UNCHANGED confirmations
           ELSE IF found = {}
           THEN resp' = HTTPError(404, "Record not found") /\ UNCHANGED confirmations
           ELSE IF ~a.ok
           THEN /\ resp' = HTTPError(400, a.detail)
                /\ confirmations' = db_close(confirmations, record, a.obj)
           ELSE /\ confirmations' = flush_update(confirmations, record, a.obj)
                /\ resp' = Redirect("/confirmations/{record_id}")
        /\ UNCHANGED <<session, users, issued, inflight>>

\* POST /confirmations/{record_id}/delete
delete_confirmation(s, csrf_token, record_id) ==
    /\ req = NoRequest
    /\ req' = [route |-> "delete_confirmation", sid |-> s, csrf_token |-> csrf_token,
               record_id |-> record_id]
    /\ IF ~login_required(session[s])
       THEN resp' = Redirect("/login") /\ UNCHANGED confirmations
       ELSE IF ~validate_csrf(session[s], csrf_token)
       THEN resp' = HTTPError(400, "Invalid CSRF token") /\ UNCHANGED confirmations
       ELSE IF db_get(confirmations, record_id) = {}
       THEN resp' = HTTPError(404, "Record not found") /\ UNCHANGED confirmations
       ELSE /\ confirmations' = delete_row(confirmations, record_id)
            /\ resp' = Redirect("/confirmations")
    /\ UNCHANGED <<session, users, issued, inflight>>

----------------------------------------------------------------------------
(* update_confirmation in two steps, for requests that run at the same time:  *)
(* handlers are plain functions, which FastAPI runs on a thread pool, each    *)
(* with a Session of its own; a SELECT holds no lock once it has returned.    *)

\* lines up to the last assignment: checks passed, record loaded, fields assigned
update_load(k, s, csrf_token, record_id, form) ==
    LET found == db_get(confirmations, record_id)
        record == CHOOSE r \in found : TRUE
        a == assign_fields(record, form)
    IN  /\ req = NoRequest
        /\ inflight[k].state = "idle"
        /\ update_precheck(s, csrf_token, form).status = 0
        /\ found # {}
        /\ a.ok
        /\ inflight' = [inflight EXCEPT ![k] =
                           [state |-> "loaded", sid |-> s, csrf_token |-> csrf_token,
                            record_id |-> record_id, form |-> form,
                            loaded |-> record, obj |-> a.obj]]
        /\ UNCHANGED <<session, users, confirmations, issued, req, resp>>

\* db.commit() and the redirect; an UPDATE that matches no row raises StaleDataError
update_commit(k) ==
    LET t == inflight[k]
        stale == changed_columns(t.loaded, t.obj) # {} /\ db_get(confirmations, t.record_id) = {}
    IN  /\ req = NoRequest
        /\ t.state = "loaded"
        /\ req' = [route |-> "update_confirmation", sid |-> t.sid, csrf_token |-> t.csrf_token,
                   record_id |-> t.record_id, form |-> t.form]
        /\ confirmations' = flush_update(confirmations, t.loaded, t.obj)
        /\ resp' = IF stale THEN HTTPError(500, "Internal Server Error")
                   ELSE Redirect("/confirmations/{record_id}")
        /\ inflight' = [inflight EXCEPT ![k] =
                           [state |-> "done", record_id |-> t.record_id, form |-> t.form]]
        /\ UNCHANGED <<session, users, issued>>

----------------------------------------------------------------------------
(* login_page in two steps, for requests that run at the same time: between the *)
(* SELECT count of ensure_admin_exists and its INSERT another request can run.  *)

\* db.query(User).count() of ensure_admin_exists
login_page_count(k, s) ==
    /\ req = NoRequest
    /\ inflight[k].state = "idle"
    /\ inflight' = [inflight EXCEPT ![k] =
                       [state |-> "counted", sid |-> s, count |-> Cardinality(users)]]
    /\ UNCHANGED <<session, users, confirmations, issued, req, resp>>

\* the rest of login_page: the INSERT when the count was 0, which raises IntegrityError
\* (answered 500, before a token is issued) when the username is taken by now
login_page_insert(k, salt) ==
    LET t == inflight[k]
        inserts == t.count = 0
        default_user ==
            [id |-> next_id(users), username |-> admin,
             password_hash |-> hash_password(admin123, salt)]
    IN  /\ req = NoRequest
        /\ t.state = "counted"
        /\ req' = [route |-> "login_page", sid |-> t.sid]
        /\ inflight' = [inflight EXCEPT ![k] = Idle]
        /\ IF inserts /\ ~unique_username(users, admin)
           THEN /\ resp' = HTTPError(500, "Internal Server Error")
                /\ UNCHANGED <<users, session, issued>>
           ELSE /\ issued < MaxTokens
                /\ users' = IF inserts THEN users \cup {default_user} ELSE users
                /\ issued' = issued + 1
                /\ session' = [session EXCEPT ![t.sid] = generate_csrf_token(@, issued + 1)]
                /\ resp' = TemplateResponse("login.html", 200, "")
        /\ UNCHANGED confirmations

----------------------------------------------------------------------------
(* Specifications *)

\* the response goes out to the client; nothing of the request stays behind
send_response ==
    /\ req # NoRequest
    /\ req' = NoRequest
    /\ resp' = NoResponse
    /\ UNCHANGED <<session, users, confirmations, issued, inflight>>

\* requests answered one after the other, each handled from start to end
Next ==
    \/ \E s \in SessionIds : root(s)
    \/ \E s \in SessionIds, salt \in Salts : login_page(s, salt)
    \/ \E s \in SessionIds, c \in Credentials, tok \in SubmittedTokens :
          login(s, c[1], c[2], tok)
    \/ \E s \in SessionIds, tok \in SubmittedTokens : logout(s, tok)
    \/ \E s \in SessionIds : dashboard(s)
    \/ \E s \in SessionIds, q \in Queries : list_confirmations(s, q)
    \/ \E s \in SessionIds : new_confirmation_form(s)
    \/ \E s \in SessionIds, tok \in SubmittedTokens, f \in Forms, now \in Times :
          create_confirmation(s, tok, f, now)
    \/ \E s \in SessionIds, id \in RecordIds : view_confirmation(s, id)
    \/ \E s \in SessionIds, id \in RecordIds : edit_confirmation_form(s, id)
    \/ \E s \in SessionIds, tok \in SubmittedTokens, id \in RecordIds, f \in Forms :
          update_confirmation(s, tok, id, f)
    \/ \E s \in SessionIds, tok \in SubmittedTokens, id \in RecordIds :
          delete_confirmation(s, tok, id)
    \/ \E s \in SessionIds : backup_db(s)
    \/ \E s \in SessionIds : export_csv(s)
    \/ send_response

Spec == Init /\ [][Next]_vars

\* one client, logged in through the login page, whose update requests overlap
ConcForms ==
    {FormAnn, [FormAnn EXCEPT !.full_name = Cy], [FormAnn EXCEPT !.confirmation_date = D_2024_02_29]}

NextConc ==
    \/ \E salt \in Salts : login_page("s1", salt)
    \/ \E tok \in SubmittedTokens : login("s1", admin, admin123, tok)
    \/ \E tok \in SubmittedTokens, now \in Times : create_confirmation("s1", tok, FormAnn, now)
    \/ \E k \in Slots, tok \in SubmittedTokens, id \in RecordIds, f \in ConcForms :
          update_load(k, "s1", tok, id, f)
    \/ \E k \in Slots : update_commit(k)
    \/ send_response

SpecConc == Init /\ [][NextConc]_vars

\* two clients whose login-page requests overlap, and who log in and out
NextBoot ==
    \/ \E k \in Slots, s \in SessionIds : login_page_count(k, s)
    \/ \E k \in Slots, salt \in Salts : login_page_insert(k, salt)
    \/ \E s \in SessionIds, c \in Credentials, tok \in SubmittedTokens :
          login(s, c[1], c[2], tok)
    \/ \E s \in SessionIds, tok \in SubmittedTokens : logout(s, tok)
    \/ \E s \in SessionIds : root(s)
    \/ send_response

SpecBoot == Init /\ [][NextBoot]_vars

----------------------------------------------------------------------------
(* Vocabulary of the properties *)

MutatingRoutes == {"create_confirmation", "update_confirmation", "delete_confirmation"}

ProtectedRoutes ==
    MutatingRoutes \cup
    {"dashboard", "list_confirmations", "new_confirmation_form", "view_confirmation",
     "edit_confirmation_form", "backup_db", "export_csv"}

\* the session holds a user_id
HoldsUser(sess) == "user_id" \in DOMAIN sess

\* the tokens that the session's stored token lets through
ValidTokens(sess) ==
    {tok \in 0..MaxTokens : "csrf_token" \in DOMAIN sess /\ sess["csrf_token"] = tok}

\* every Form(...) field of a create or edit request is non-empty (delete has none but the token)
FormComplete(r) ==
    r.route = "delete_confirmation" \/ \A f \in RequiredFields : r.form[f] # <<>>

CsrfMismatch == HTTPError(400, "Invalid CSRF token")

\* a response that rejects the submitted fields
ValidationFailed(r) ==
    \/ r.status = 422
    \/ r.status = 400 /\ r.detail \in {DateError("date_of_birth"), DateError("confirmation_date")}

\* value is a calendar date written exactly as YYYY-MM-DD
ExactDate(value) ==
    /\ Len(value) = 10
    /\ \A i \in {1, 2, 3, 4, 6, 7, 9, 10} : IsDigit(value[i])
    /\ value[5] = "-" /\ value[8] = "-"
    /\ IntOf(SubSeq(value, 1, 4)) >= 1
    /\ IntOf(SubSeq(value, 6, 7)) \in 1..12
    /\ IntOf(SubSeq(value, 9, 10)) >= 1
    /\ IntOf(SubSeq(value, 9, 10)) <= DaysInMonth(IntOf(SubSeq(value, 1, 4)), IntOf(SubSeq(value, 6, 7)))

----------------------------------------------------------------------------
(* Properties *)

\* C1 as stated: a mutating request whose token is not the session's stored token fails
\* with CsrfMismatch (400) and leaves the records as they were
C1_MismatchAlways400 ==
    [][LET r == req'
       IN  (r.route \in MutatingRoutes /\ r.csrf_token \notin ValidTokens(session[r.sid]))
           => (resp' = CsrfMismatch /\ confirmations' = confirmations)]_vars

\* C1 amended: a mutating request whose token is not the session's stored token never
\* changes the records; it is redirected to /login when the session holds no user_id,
\* rejected with 422 when the session does and a required form field is empty, and
\* fails with CsrfMismatch (400) otherwise
C1_MismatchNoMutation ==
    [][LET r == req'
       IN  (r.route \in MutatingRoutes /\ r.csrf_token \notin ValidTokens(session[r.sid]))
           => /\ confirmations' = confirmations
              /\ resp' = IF ~HoldsUser(session[r.sid]) THEN Redirect("/login")
                         ELSE IF ~FormComplete(r) THEN RequestValidationError
                         ELSE CsrfMismatch]_vars

\* C1 witness: a logged-in client's delete of a record that exists, refused for its token
C1_Witness ==
    /\ req.route = "delete_confirmation"
    /\ resp = CsrfMismatch
    /\ HoldsUser(session[req.sid])
    /\ \E r \in confirmations : r.id = req.record_id

\* C2: a request to a protected route from a session without user_id is redirected to
\* /login whatever it submits, and changes neither table nor any session
C2_AnonymousRedirected ==
    [][LET r == req'
       IN  (r.route \in ProtectedRoutes /\ ~HoldsUser(session[r.sid]))
           => /\ resp' = Redirect("/login")
              /\ confirmations' = confirmations
              /\ users' = users
              /\ session' = session]_vars

\* C2 witness: an anonymous create with a complete valid form and the session's own token
C2_Witness ==
    /\ req.route = "create_confirmation"
    /\ resp = Redirect("/login")
    /\ ~HoldsUser(session[req.sid])
    /\ req.form = FormAnn
    /\ req.csrf_token \in ValidTokens(session[req.sid])

\* C3: a session gains a user_id only by a login request of its own whose trimmed username
\* is a stored user's and whose password is the one that user's hash was made from, loses
\* it only by a logout request of its own, and a user_id held is always a stored user's id
C3_SessionTransitions ==
    /\ [][\A s \in SessionIds :
            /\ (~HoldsUser(session[s]) /\ HoldsUser(session'[s]))
               => /\ req'.route = "login" /\ req'.sid = s
                  /\ \E u \in users :
                        /\ u.username = strip(req'.username)
                        /\ \E salt \in Salts : u.password_hash = hash_password(req'.password, salt)
                        /\ session'[s]["user_id"] = u.id
            /\ (HoldsUser(session[s]) /\ ~HoldsUser(session'[s]))
               => (req'.route = "logout" /\ req'.sid = s)]_vars
    /\ [](\A s \in SessionIds :
            HoldsUser(session[s]) => \E u \in users : u.id = session[s]["user_id"])

\* C3 witness: one client logged in by a login request, the other still anonymous
C3_Witness ==
    /\ req.route = "login"
    /\ resp = Redirect("/dashboard")
    /\ HoldsUser(session[req.sid])
    /\ \E s \in SessionIds : ~HoldsUser(session[s])

\* both update requests have committed, on the same record
BothUpdated(id) ==
    \A k \in Slots : inflight[k].state = "done" /\ inflight[k].record_id = id

\* the mutable fields a form asks for
Submitted(form) ==
    [full_name |-> strip(form.full_name),
     date_of_birth |-> parse_date(form.date_of_birth).date,
     confirmation_date |-> parse_date(form.confirmation_date).date,
     church_name |-> strip(form.church_name),
     priest_name |-> strip(form.priest_name),
     sponsor_name |-> strip(form.sponsor_name),
     remarks |-> strip(form.remarks)]

\* C4: once two overlapping updates of one record have both committed, the record's
\* mutable fields are the complete field set of one of the two requests
C4_NoTornWrite ==
    \A id \in RecordIds : \A r \in confirmations :
        (BothUpdated(id) /\ r.id = id)
        => \E k \in Slots : [f \in MutableFields |-> r[f]] = Submitted(inflight[k].form)

\* C5: every stored record has a non-empty full_name, church_name and priest_name
C5_RequiredFieldsPresent ==
    \A r \in confirmations :
        \A f \in {"full_name", "church_name", "priest_name"} : strip(r[f]) # <<>>

\* C6: the tokens a session lets through are, after a token is issued in it, exactly that
\* token, and otherwise never more than before; no token is let through by two sessions
C6_OnlyLatestTokenValidates ==
    /\ [][\A s \in SessionIds :
            IF issued' # issued /\ req'.sid = s
            THEN ValidTokens(session'[s]) = {issued'}
            ELSE ValidTokens(session'[s]) \subseteq ValidTokens(session[s])]_vars
    /\ [](\A s, t \in SessionIds :
            s # t => ValidTokens(session[s]) \cap ValidTokens(session[t]) = {})

\* C6 witness: two pages rendered one after the other for one client, the other client
\* never served: the first token is no longer let through
C6_Witness ==
    /\ issued = 2
    /\ resp.status = 200
    /\ ValidTokens(session[req.sid]) = {2}
    /\ \E s \in SessionIds : session[s] = EmptySession

\* C7 as stated: after a logout request the session is empty, whatever token it submitted
C7_LogoutAlwaysClears ==
    [][req'.route = "logout" => session'[req'.sid] = EmptySession]_vars

\* C7 amended: a logout request whose token is the session's stored token empties the
\* session (no user_id, no username, no csrf_token) and redirects to /login; with any
\* other token it fails with CsrfMismatch and the session is as before
C7_LogoutClearsOnValidToken ==
    [][LET r == req'
       IN  r.route = "logout"
           => IF r.csrf_token \in ValidTokens(session[r.sid])
              THEN DOMAIN session'[r.sid] = {} /\ resp' = Redirect("/login")
              ELSE session'[r.sid] = session[r.sid] /\ resp' = CsrfMismatch]_vars

\* C7 witness: a logout that went through, leaving the session empty
C7_Witness ==
    /\ req.route = "logout"
    /\ resp = Redirect("/login")
    /\ session[req.sid] = EmptySession
    /\ users # {}

\* C8: an update request that is rejected for its fields changes no record
C8_FailedUpdateChangesNothing ==
    [][(req'.route = "update_confirmation" /\ ValidationFailed(resp'))
       => confirmations' = confirmations]_vars

\* C8 witness: an update rejected for its confirmation_date, after a full_name and a
\* date_of_birth that differ from the record's were assigned
C8_Witness ==
    /\ req.route = "update_confirmation"
    /\ resp = HTTPError(400, DateError("confirmation_date"))
    /\ \E r \in confirmations :
          /\ r.id = req.record_id
          /\ r.full_name # strip(req.form.full_name)
          /\ r.date_of_birth # parse_date(req.form.date_of_birth).date

\* C9: a create request, otherwise in order, with a date that is not a calendar date
\* written exactly as YYYY-MM-DD fails with 400 naming the field, and adds no record
C9_InexactDateRejected ==
    [][LET r == req'
       IN  (/\ r.route = "create_confirmation"
            /\ HoldsUser(session[r.sid])
            /\ r.csrf_token \in ValidTokens(session[r.sid])
            /\ FormComplete(r)
            /\ ~(ExactDate(r.form.date_of_birth) /\ ExactDate(r.form.confirmation_date)))
           => /\ resp' = HTTPError(400, DateError(IF ~ExactDate(r.form.date_of_birth)
                                                  THEN "date_of_birth"
                                                  ELSE "confirmation_date"))
              /\ Cardinality(confirmations') = Cardinality(confirmations)]_vars

\* C10: an edit request with all its form fields is answered by the first check it fails,
\* in the order authentication, CSRF, validation of the fields, lookup of the record
C10_ChecksInOrder ==
    [][LET r == req'
       IN  (r.route = "update_confirmation" /\ FormComplete(r))
           => IF ~HoldsUser(session[r.sid]) THEN resp' = Redirect("/login")
              ELSE IF r.csrf_token \notin ValidTokens(session[r.sid]) THEN resp' = CsrfMismatch
              ELSE IF ~(parse_date(r.form.date_of_birth).ok /\ parse_date(r.form.confirmation_date).ok)
              THEN ValidationFailed(resp')
              ELSE IF \A x \in confirmations : x.id # r.record_id THEN resp'.status = 404
              ELSE resp'.status = 303]_vars

\* the fields of a form are acceptable: the required text fields are non-empty after
\* trimming and both dates are calendar dates written as YYYY-MM-DD
ValidFields(form) ==
    /\ \A f \in {"full_name", "church_name", "priest_name"} : strip(form[f]) # <<>>
    /\ ExactDate(form.date_of_birth) /\ ExactDate(form.confirmation_date)

\* the mutable fields of record are the ones the form asks for
HasFields(record, form) == \A f \in MutableFields : record[f] = Submitted(form)[f]

NotFound == HTTPError(404, "Record not found")

\* C11: after an update request that succeeded, the record of that id has the seven
\* mutable fields submitted (trimmed, dates parsed), the id and created_at it had before,
\* and every other record is as before
C11_UpdateThenGet ==
    [][LET r == req'
       IN  (r.route = "update_confirmation" /\ resp' = Redirect("/confirmations/{record_id}"))
           => \E old \in confirmations : \E new \in confirmations' :
                 /\ old.id = r.record_id
                 /\ db_get(confirmations', r.record_id) = {new}
                 /\ HasFields(new, r.form)
                 /\ new.id = old.id /\ new.created_at = old.created_at
                 /\ confirmations' \ {new} = confirmations \ {old}]_vars

\* C11 witness: of two records, one was updated with a form that changes every field
C11_Witness ==
    /\ req.route = "update_confirmation"
    /\ resp = Redirect("/confirmations/{record_id}")
    /\ req.form = FormBob
    /\ \E r, o \in confirmations :
          /\ r.id = req.record_id /\ HasFields(r, FormBob)
          /\ o.id # r.id /\ HasFields(o, FormAnn)

\* C12: a create request with acceptable fields from a logged-in session with its token
\* succeeds and adds exactly one record, under an id no stored record has, with the
\* fields submitted (trimmed; sponsor_name and remarks empty when omitted); the records
\* stored before are as before and there is one record more
C12_CreateAddsOne ==
    [][LET r == req'
       IN  (/\ r.route = "create_confirmation"
            /\ HoldsUser(session[r.sid])
            /\ r.csrf_token \in ValidTokens(session[r.sid])
            /\ ValidFields(r.form))
           => /\ resp' = Redirect("/confirmations")
              /\ \E new \in confirmations' :
                    /\ new.id \notin {x.id : x \in confirmations}
                    /\ confirmations' = confirmations \cup {new}
                    /\ db_get(confirmations', new.id) = {new}
                    /\ HasFields(new, r.form)
              /\ Cardinality(confirmations') = Cardinality(confirmations) + 1]_vars

\* C12 witness: a padded form with sponsor and remarks was stored next to an older record
\* made from a form that omits them
C12_Witness ==
    /\ req.route = "create_confirmation"
    /\ resp = Redirect("/confirmations")
    /\ req.form = FormBob
    /\ \E r, o \in confirmations :
          /\ r.id = 2 /\ HasFields(r, FormBob)
          /\ o.id = 1 /\ HasFields(o, FormAnn) /\ o.sponsor_name = <<>> /\ o.remarks = <<>>

\* C13: a delete request that succeeded removed exactly the record of that id, which is
\* then not found; and a view or a delete (with the session's token) of an id that no
\* record has fails with NotFound and changes neither the records nor the session
C13_DeleteThenNotFound ==
    [][LET r == req'
       IN  /\ (r.route = "delete_confirmation" /\ resp' = Redirect("/confirmations"))
              => \E old \in confirmations :
                    /\ old.id = r.record_id
                    /\ confirmations' = confirmations \ {old}
                    /\ db_get(confirmations', r.record_id) = {}
           /\ (/\ r.route \in {"delete_confirmation", "view_confirmation"}
               /\ HoldsUser(session[r.sid])
               /\ r.route = "delete_confirmation" => r.csrf_token \in ValidTokens(session[r.sid])
               /\ db_get(confirmations, r.record_id) = {})
              => /\ resp' = NotFound
                 /\ confirmations' = confirmations
                 /\ session' = session]_vars

\* C13 witness: record 2 is stored and record 1, which existed when 2 was created, is not:
\* a second delete of record 1 was answered NotFound
C13_Witness ==
    /\ req.route = "delete_confirmation"
    /\ req.record_id = 1
    /\ resp = NotFound
    /\ {x.id : x \in confirmations} = {2}

\* pattern occurs in text, character for character
Contains(text, pattern) ==
    \E i \in 0..(Len(text) - Len(pattern)) : SubSeq(text, i + 1, i + Len(pattern)) = pattern

\* the letters of text all small
Folded(text) ==
    [i \in 1..Len(text) |->
        IF \E n \in 1..26 : UpperCase[n] = text[i]
        THEN LowerCase[CHOOSE n \in 1..26 : UpperCase[n] = text[i]]
        ELSE text[i]]

\* the confirmation date written YYYY-MM-DD
DateText(d) ==
    LET two(n) == <<Digits[(n \div 10) + 1], Digits[(n % 10) + 1]>>
    IN  two(d.year \div 100) \o two(d.year % 100) \o <<"-">> \o two(d.month) \o <<"-">> \o two(d.day)

\* the record matches the query: the trimmed query occurs, letter case aside, in one of
\* the three names or in the confirmation date
Matches(r, q) ==
    \E text \in {r.full_name, r.church_name, r.priest_name, DateText(r.confirmation_date)} :
        Contains(Folded(text), Folded(strip(q)))

\* the set of the rows a response carries
RowsOf(response) == {response.records[i] : i \in DOMAIN response.records}

\* the response is a rendered search result
Searched(r, response) == r.route = "list_confirmations" /\ response.status = 200

\* C14: a search returns every record when the query is empty or blank, the same set as
\* the export, and otherwise exactly the records in which the trimmed query occurs as a
\* case-insensitive literal substring of full_name, church_name, priest_name or the
\* confirmation date written YYYY-MM-DD
C14_SearchReturnsMatches ==
    [][Searched(req', resp')
       => RowsOf(resp') =
             IF strip(req'.q) = <<>>
             THEN {order_by_id_asc(confirmations)[i] : i \in 1..Cardinality(confirmations)}
             ELSE {r \in confirmations : Matches(r, req'.q)}]_vars

\* C15: the sequence a search returns has the confirmation dates descending, and of two
\* records with the same confirmation date the one created earlier comes first
C15_SearchOrdered ==
    [][Searched(req', resp')
       => \A i, j \in DOMAIN resp'.records :
             LET a == resp'.records[i]
                 b == resp'.records[j]
             IN  i < j => \/ DateKey(a.confirmation_date) > DateKey(b.confirmation_date)
                          \/ /\ a.confirmation_date = b.confirmation_date
                             /\ a.id < b.id]_vars

\* no stored user has the trimmed username together with the password submitted
WrongCredentials(r) ==
    ~\E u \in users :
        /\ u.username = strip(r.username)
        /\ \E salt \in Salts : u.password_hash = hash_password(r.password, salt)

InvalidCredentials == TemplateResponse("login.html", 400, "Invalid username or password")

\* the session's user_id and username are in after as they are in before, present or absent
SameUser(before, after) ==
    \A k \in {"user_id", "username"} :
        /\ k \in DOMAIN after <=> k \in DOMAIN before
        /\ k \in DOMAIN before => after[k] = before[k]

\* C16: a login request with the session's token and wrong credentials leaves the
\* session's user_id and username as they were, stores a freshly issued token so that the
\* token submitted is no longer let through, and is answered with the same status and
\* message whether the username is unknown or the password is wrong
C16_FailedLogin ==
    [][LET r == req'
       IN  (/\ r.route = "login"
            /\ r.csrf_token \in ValidTokens(session[r.sid])
            /\ WrongCredentials(r))
           => /\ resp' = InvalidCredentials
              /\ SameUser(session[r.sid], session'[r.sid])
              /\ issued' = issued + 1
              /\ ValidTokens(session'[r.sid]) = {issued'}
              /\ r.csrf_token \notin ValidTokens(session'[r.sid])]_vars

\* C16 witness: a logged-in client's login with a stored username and a wrong password
C16_Witness ==
    /\ req.route = "login"
    /\ resp = InvalidCredentials
    /\ HoldsUser(session[req.sid])
    /\ \E u \in users : u.username = strip(req.username)

Admins == {u \in users : u.username = admin}

\* C17: the users table never holds two users of one username nor more than the one
\* bootstrap user; a table that holds a user is never added to; and after a login-page
\* request, however it was interleaved with others, exactly one user "admin" is stored
C17_AdminCreatedOnce ==
    /\ [](/\ Cardinality(users) <= 1
          /\ \A u, v \in users : u.username = v.username => u = v)
    /\ [][users # {} => users' = users]_vars
    /\ [][req'.route = "login_page" => Cardinality({u \in users' : u.username = admin}) = 1]_vars

\* C17 witness: two login-page requests both counted no user; one inserted the admin and
\* the other's INSERT was refused
C17_Witness ==
    /\ req.route = "login_page"
    /\ resp.status = 500
    /\ Cardinality(Admins) = 1

\* C18: a create, edit or delete request leaves every session as it was and issues no
\* token, so the token it was let through with is let through again; and a session is
\* changed only by a request of its own client
C18_SubmitKeepsToken ==
    [][LET r == req'
       IN  /\ r.route \in MutatingRoutes => (session' = session /\ issued' = issued)
           /\ \A s \in SessionIds : session'[s] # session[s] => r.sid = s]_vars

\* C18 witness: a second record created with the only token issued so far
C18_Witness ==
    /\ req.route = "create_confirmation"
    /\ resp = Redirect("/confirmations")
    /\ issued = 1
    /\ req.csrf_token = 1
    /\ ValidTokens(session[req.sid]) = {1}
    /\ Cardinality(confirmations) = 2

GetRoutes ==
    {"root", "login_page", "dashboard", "list_confirmations", "new_confirmation_form",
     "view_confirmation", "edit_confirmation_form", "backup_db", "export_csv"}

\* C19: a GET request leaves the confirmation records as they were, and in every session
\* changes at most the csrf_token: user_id and username stay, present or absent
C19_GetChangesOnlyToken ==
    [][req'.route \in GetRoutes
       => /\ confirmations' = confirmations
          /\ \A s \in SessionIds :
                /\ SameUser(session[s], session'[s])
                /\ DOMAIN session'[s] \subseteq DOMAIN session[s] \cup {"csrf_token"}]_vars

\* C19 witness: the edit form of a stored record rendered for a logged-in client, whose
\* session got a new token
C19_Witness ==
    /\ req.route = "edit_confirmation_form"
    /\ resp.status = 200
    /\ HoldsUser(session[req.sid])
    /\ ValidTokens(session[req.sid]) = {2}
    /\ \E r \in confirmations : r.id = req.record_id

====
